---- MODULE Spec2Model ----
(***************************************************************************)
(* Model of mcp-harbor's entry point (src/src/app.ts, the version with the *)
(* logger, lines 202-412): start-up configuration, the ListTools/CallTool  *)
(* request handlers, and the two transport bindings (stdio, HTTP + SSE     *)
(* with the `transports` session map).                                     *)
(*                                                                         *)
(* Node runs every handler to completion before the next event is taken,   *)
(* so one action is one handler (with the microtasks it schedules).  The   *)
(* only real suspension point is the await of the registry call inside the *)
(* CallTool handler, which is why a tool call is two actions.              *)
(***************************************************************************)
EXTENDS Integers, Sequences, FiniteSets, TLC

(* ---------------------------------------------------------------------- *)
(* Bounds                                                                 *)
(* ---------------------------------------------------------------------- *)
MaxSessions == 2      \* GET /sse requests served in one run
MaxRequests == 2      \* POST /messages requests or stdio messages handled in one run
MaxLoggers == 3       \* Logger instances constructed in one run, the module's own included
MaxLogCalls == 2      \* debug/info/error calls made in one run

(* ---------------------------------------------------------------------- *)
(* JavaScript values                                                      *)
(* A string is <<"string", n>>, n = 0 being the empty string; the value   *)
(* undefined is <<"undefined", 0>>.                                       *)
(* ---------------------------------------------------------------------- *)
Undefined == <<"undefined", 0>>
Str(n) == <<"string", n>>
EmptyStr == Str(0)
Truthy(v) == v[1] = "string" /\ v[2] # 0
None == "none"

\* what yargs can deliver for --password / --token (type: "string", no default)
OptionValues == {Undefined, EmptyStr, Str(1)}

\* the session identifiers crypto.randomUUID() can produce in a bounded run
SessionIds == {Str(i) : i \in 1..MaxSessions}
\* what req.query.sessionId can be
QueryValues == {Undefined, EmptyStr} \cup SessionIds

\* transports are identified by the response object they wrap; 0 is stdio
Stdio == 0
ResIds == 1..MaxSessions

NotFoundBody == "No SSE connection found for this session"

\* Builds of @modelcontextprotocol/sdk differ in Protocol.connect/_onrequest:
\*  "late"    connect rebinds _transport; a response goes to _transport as it
\*            is when the handler settles
\*  "capture" connect rebinds _transport; a response goes to _transport as it
\*            was when the request arrived
\*  "guard"   connect throws while _transport is set
SdkBuilds == {"late", "capture", "guard"}

VARIABLES
  pc,               \* position of the module's top-level code
  argv,             \* parsed command line
  sdk,              \* which build of the SDK is installed
  components,       \* objects constructed so far
  auth,             \* HarborAuth handed to HarborService
  TOOL_DEFINITIONS, \* the catalog: sequence of <<name, def>> (own keys, in order)
  transports,       \* Map<string, SSEServerTransport>: sessionId -> [sessionId, res]
  created,          \* sessionId of every SSEServerTransport constructed, by res
  resOpen,          \* responses whose stream is open
  started,          \* transports whose start() ran and whose stream is open
  serverTransport,  \* server._transport: {} when unset, else {transport}
  stream,           \* per transport, the protocol messages written to it
  inflight,         \* tool calls awaiting harborService
  nextReq,          \* requests accepted so far
  lastPost,         \* answer to the last POST /messages (<< >> before the first)
  listResults,      \* the results ListTools has returned
  lastCall,         \* outcome of the last CallTool settled
  loggers,          \* utils/logger.ts: the Logger instances constructed, by reference
  globalLogger,     \* utils/logger.ts: reference held by `globalLogger`
  console,          \* the console.error calls made, each the list of its arguments
  logCalls,         \* calls of debug/info/error made so far
  lastLogCall,      \* the last such call (<< >> before the first)
  initReturns,      \* what each initLogger call was given and returned
  got               \* what the last getLogger call returned (<< >> before the first)

vars == <<pc, argv, sdk, components, auth, TOOL_DEFINITIONS, transports, created,
          resOpen, started, serverTransport, stream, inflight,
          nextReq, lastPost, listResults, lastCall,
          loggers, globalLogger, console, logCalls, lastLogCall, initReturns, got>>

startupVars == <<pc, argv, sdk, components, auth>>
sessionVars == <<transports, created, resOpen, started>>
requestVars == <<serverTransport, stream, inflight, nextReq>>
observeVars == <<lastPost, listResults, lastCall>>
loggerVars == <<loggers, globalLogger, console, logCalls, lastLogCall, initReturns, got>>

(* ---------------------------------------------------------------------- *)
(* The tool catalog (definitions/tool.definitions.ts)                     *)
(* ---------------------------------------------------------------------- *)
ToolDef(d, s) == [description |-> d, inputSchema |-> s]

StaticCatalog ==
  << <<"list_projects", ToolDef("List all projects", "schemaA")>>,
     <<"get_project",   ToolDef("Get project by ID", "schemaB")>> >>

CatalogKeys(defs) == {defs[i][1] : i \in 1..Len(defs)}

UnknownTool == "no_such_tool"
\* the names clients ask for: a catalogued one and one that is not
RequestedNames == {StaticCatalog[1][1], UnknownTool}

(* ---------------------------------------------------------------------- *)
(* Errors and the request handlers of createServer                        *)
(* ---------------------------------------------------------------------- *)
\* a message is a sequence of words; Contains is substring containment
Contains(msg, part) ==
  \E i \in 0..(Len(msg) - Len(part)) : SubSeq(msg, i + 1, i + Len(part)) = part

\* new McpError(code, message): the SDK prefixes the message with the code
McpError(code, message) ==
  [isError |-> TRUE, isMcpError |-> TRUE, code |-> code,
   message |-> <<"MCP error", code>> \o message]

\* new Error(message)
PlainError(message) ==
  [isError |-> TRUE, isMcpError |-> FALSE, code |-> None, message |-> message]

\* a thrown value that is no Error at all (throw "text", a rejected non-Error)
NonError == [isError |-> FALSE, isMcpError |-> FALSE, code |-> None, message |-> << >>]

\* how a call ends: with a value, or with a thrown value
Returns(value) == [kind |-> "return", value |-> value, error |-> NonError]
Throws(error) == [kind |-> "throw", value |-> << >>, error |-> error]

\* harborService.handleToolRequest(name, args): what a call can end in
HandleToolRequest(name, defs) ==
  IF name \notin CatalogKeys(defs)
    THEN {Throws(McpError("MethodNotFound", <<"Unknown tool", name>>))}
    ELSE {Returns(<<"result of", name>>),
          Throws(McpError("InvalidParams", <<"bad argument">>)),
          Throws(PlainError(<<"boom">>)),
          Throws(NonError)}

\* mutant: the entries are walked one short
ListToolsHandler_DropLast(defs) ==
  [i \in 1..(Len(defs) - 1) |->
     [name |-> defs[i][1],
      description |-> defs[i][2].description,
      inputSchema |-> defs[i][2].inputSchema]]

\* the ListTools handler: Object.entries(TOOL_DEFINITIONS).map(...)
ListToolsHandler(defs) ==
  [i \in 1..Len(defs) |->
     [name |-> defs[i][1],
      description |-> defs[i][2].description,
      inputSchema |-> defs[i][2].inputSchema]]

\* mutant: the catch wraps every error, protocol errors included
CallToolHandler_WrapAll(outcome) ==
  IF outcome.kind = "return" THEN Returns(outcome.value)
  ELSE Throws(McpError("InternalError",
                       IF outcome.error.isError THEN outcome.error.message
                       ELSE <<"Unknown error occurred">>))

\* mutant: the catch reports the failure as an ordinary result
CallToolHandler_Swallow(outcome) ==
  IF outcome.kind = "return" THEN Returns(outcome.value)
  ELSE Returns(<<"error">> \o outcome.error.message)

\* the CallTool handler, given how handleToolRequest ended: the value it
\* resolves with, or the error it rejects with
CallToolHandler(outcome) ==
  IF outcome.kind = "return" THEN Returns(outcome.value)
  ELSE IF outcome.error.isMcpError THEN Throws(outcome.error)
  ELSE Throws(McpError("InternalError",
                       IF outcome.error.isError THEN outcome.error.message
                       ELSE <<"Unknown error occurred">>))

\* what Protocol sends back for a settled handler
ResponseOf(settled) ==
  IF settled.kind = "return"
    THEN [type |-> "result", result |-> settled.value, code |-> None, message |-> << >>]
    ELSE [type |-> "error", result |-> << >>,
          code |-> settled.error.code, message |-> settled.error.message]

(* ---------------------------------------------------------------------- *)
(* The session map                                                        *)
(* ---------------------------------------------------------------------- *)
EmptyMap == [k \in {} |-> None]

\* mutant: the new entry replaces the map
MapSet_Replace(map, key, value) == [k \in {key} |-> value]

\* transports.set(key, value)
MapSet(map, key, value) ==
  [k \in DOMAIN map \cup {key} |-> IF k = key THEN value ELSE map[k]]

\* mutant: nothing is deleted
MapDelete_Noop(map, key) == map

\* transports.delete(key)
MapDelete(map, key) == [k \in DOMAIN map \ {key} |-> map[k]]

\* mutant: an unknown identifier falls back to some registered transport
LookupTransport_Fallback(map, sessionId) ==
  IF Truthy(sessionId) /\ sessionId \in DOMAIN map THEN {map[sessionId]}
  ELSE IF DOMAIN map = {} THEN {}
  ELSE {map[CHOOSE k \in DOMAIN map : \A other \in DOMAIN map : k[2] <= other[2]]}

\* mutant: a known identifier gets the oldest registered transport
LookupTransport_Oldest(map, sessionId) ==
  IF Truthy(sessionId) /\ sessionId \in DOMAIN map
    THEN {map[CHOOSE k \in DOMAIN map : \A other \in DOMAIN map : k[2] <= other[2]]}
    ELSE {}

\* mutant: the lookup also finds the transports of sessions that have closed
LookupTransport_Stale(map, sessionId) ==
  IF Truthy(sessionId) /\ sessionId \in DOMAIN map THEN {map[sessionId]}
  ELSE {[sessionId |-> sessionId, res |-> r] :
          r \in {i \in 1..Len(created) : created[i] = sessionId}}

\* sessionId ? transports.get(sessionId) : undefined
\* ({} stands for undefined, {t} for the transport t)
LookupTransport(map, sessionId) ==
  IF Truthy(sessionId) /\ sessionId \in DOMAIN map THEN {map[sessionId]} ELSE {}

\* mutant: the listener deletes the oldest entry instead of its own
CloseListener_Oldest(map, sessionId) ==
  IF DOMAIN map = {} THEN map
  ELSE MapDelete(map, CHOOSE k \in DOMAIN map : \A other \in DOMAIN map : k[2] <= other[2])

\* the "close" listener of app.get("/sse"): transports.delete(transport.sessionId)
CloseListener(map, sessionId) == MapDelete(map, sessionId)

\* mutant: every transport gets the same identifier
NewSessionIds_Reuse(seen) == {Str(1)}

\* the identifier a new SSEServerTransport gets: randomUUID() repeats none
\* (which of the unused ones it is makes no difference: the first is taken)
NewSessionIds(seen) ==
  {id \in SessionIds \ seen : \A other \in SessionIds \ seen : id[2] <= other[2]}

Issued == {created[r] : r \in 1..Len(created)}

\* res.status(400).send("No SSE connection found for this session")
RejectPost(query) ==
  [query |-> query, status |-> 400, body |-> NotFoundBody,
   handedTo |-> {}, dispatched |-> FALSE]

\* transport.handlePostMessage(req, res)
HandlePostMessage(query, transport, isStarted, valid) ==
  [query |-> query,
   status |-> IF ~isStarted THEN 500 ELSE IF valid THEN 202 ELSE 400,
   body |-> IF ~isStarted THEN "SSE connection not established"
            ELSE IF valid THEN "Accepted" ELSE "Invalid message",
   handedTo |-> {transport.res},
   dispatched |-> isStarted /\ valid]

\* what _onrequest remembers of server._transport when a request arrives
CapturedTransport(build, current) ==
  IF build = "late" THEN {} ELSE current

\* the transport a response is written to (a set: server._transport may be unset)
ResponseTarget(build, captured, current) ==
  IF build = "late" THEN current ELSE captured

\* transport.send(message): written when the transport is connected, else the
\* send throws and the message is lost
Send(streams, target, message, live) ==
  [t \in DOMAIN streams |->
     IF t \in target /\ (t = Stdio \/ t \in live)
       THEN streams[t] \cup {message}
       ELSE streams[t]]

(* ---------------------------------------------------------------------- *)
(* utils/logger.ts                                                        *)
(* ---------------------------------------------------------------------- *)
DefaultPrefix == "[MCP Harbor]"
Prefixes == {DefaultPrefix, "[Test]"}
\* the argument lists the methods are called with: one argument, several
ArgLists == {<<"test message">>, <<"msg", "object">>}

\* new Logger(prefix, enabled)
Logger(prefix, enabled) == [prefix |-> prefix, enabled |-> enabled]

\* mutant: debug() does not look at the enable flag
DebugLines_Always(logger, args) == << <<logger.prefix \o " [DEBUG]">> \o args >>

\* Logger.debug(...args): the console.error calls it makes
DebugLines(logger, args) ==
  IF logger.enabled THEN << <<logger.prefix \o " [DEBUG]">> \o args >> ELSE << >>

\* Logger.info(...args)
InfoLines(logger, args) == << <<logger.prefix \o " [INFO]">> \o args >>

\* Logger.error(...args)
ErrorLines(logger, args) == << <<logger.prefix \o " [ERROR]">> \o args >>

\* let globalLogger = new Logger()
LoggerModuleInit ==
  /\ loggers = <<Logger(DefaultPrefix, FALSE)>>
  /\ globalLogger = 1
  /\ console = << >>
  /\ logCalls = 0
  /\ lastLogCall = << >>
  /\ initReturns = << >>
  /\ got = << >>

(* ---------------------------------------------------------------------- *)
(* Start-up                                                               *)
(* ---------------------------------------------------------------------- *)
\* mutant: the mutual-exclusion test is missing
CheckArgs_NoExclusive(args) ==
  IF ~Truthy(args.password) /\ ~Truthy(args.token)
    THEN "Either --password or --token must be provided"
  ELSE "ok"

\* the yargs .check callback: TRUE, or the message of the Error it throws
CheckArgs(args) ==
  IF ~Truthy(args.password) /\ ~Truthy(args.token)
    THEN "Either --password or --token must be provided"
  ELSE IF Truthy(args.password) /\ Truthy(args.token)
    THEN "--password and --token are mutually exclusive"
  ELSE "ok"

BuildAuth(args) ==
  IF Truthy(args.token)
    THEN [type |-> "token", token |-> args.token]
    ELSE [type |-> "password", password |-> args.password]

Init ==
  /\ pc = "parse"
  /\ argv \in [password : OptionValues, token : OptionValues,
               sse : BOOLEAN]
  /\ sdk \in SdkBuilds
  /\ components = {}
  /\ auth = None
  /\ TOOL_DEFINITIONS = StaticCatalog
  /\ transports = EmptyMap
  /\ created = << >>
  /\ resOpen = {}
  /\ started = {}
  /\ serverTransport = {}
  /\ stream = [r \in {Stdio} \cup ResIds |-> {}]
  /\ inflight = {}
  /\ nextReq = 0
  /\ lastPost = << >>
  /\ listResults = {}
  /\ lastCall = << >>
  /\ LoggerModuleInit

\* yargs(...).check(...).parseSync(): a failed check prints and exits
ParseArgs ==
  /\ pc = "parse"
  /\ pc' = IF CheckArgs(argv) = "ok" THEN "logger" ELSE "aborted"
  /\ UNCHANGED <<loggerVars, argv, sdk, components, auth, TOOL_DEFINITIONS>>
  /\ UNCHANGED <<sessionVars, requestVars, observeVars>>

InitLoggerStep ==
  /\ pc = "logger"
  /\ components' = components \cup {"logger"}
  /\ pc' = "service"
  /\ UNCHANGED <<loggerVars, argv, sdk, auth, TOOL_DEFINITIONS>>
  /\ UNCHANGED <<sessionVars, requestVars, observeVars>>

NewHarborService ==
  /\ pc = "service"
  /\ auth' = BuildAuth(argv)
  /\ components' = components \cup {"harborService"}
  /\ pc' = "server"
  /\ UNCHANGED <<loggerVars, argv, sdk, TOOL_DEFINITIONS>>
  /\ UNCHANGED <<sessionVars, requestVars, observeVars>>

CreateServer ==
  /\ pc = "server"
  /\ components' = components \cup {"server"}
  /\ pc' = "transport"
  /\ UNCHANGED <<loggerVars, argv, sdk, auth, TOOL_DEFINITIONS>>
  /\ UNCHANGED <<sessionVars, requestVars, observeVars>>

\* if (argv.sse) { express(); new Map(); routes; app.listen(...) }
StartSSE ==
  /\ pc = "transport"
  /\ argv.sse
  /\ components' = components \cup {"app", "listener"}
  /\ pc' = "sse"
  /\ UNCHANGED <<loggerVars, argv, sdk, auth, TOOL_DEFINITIONS>>
  /\ UNCHANGED <<sessionVars, requestVars, observeVars>>

\* mutant: the stdio transport is connected whatever argv.sse is
ConnectStdio_NoElse ==
  /\ pc = "transport"
  /\ components' = components \cup {"stdioTransport"}
  /\ serverTransport' = {Stdio}
  /\ pc' = "stdio"
  /\ UNCHANGED <<loggerVars, argv, sdk, auth, TOOL_DEFINITIONS>>
  /\ UNCHANGED <<sessionVars, stream, inflight, nextReq, observeVars>>

\* else { await server.connect(new StdioServerTransport()) }
ConnectStdio ==
  /\ pc = "transport"
  /\ ~argv.sse
  /\ components' = components \cup {"stdioTransport"}
  /\ serverTransport' = {Stdio}
  /\ pc' = "stdio"
  /\ UNCHANGED <<loggerVars, argv, sdk, auth, TOOL_DEFINITIONS>>
  /\ UNCHANGED <<sessionVars, stream, inflight, nextReq, observeVars>>

Startup ==
  \/ ParseArgs
  \/ InitLoggerStep
  \/ NewHarborService
  \/ CreateServer
  \/ StartSSE
  \/ ConnectStdio

(* ---------------------------------------------------------------------- *)
(* The HTTP + SSE binding                                                 *)
(* ---------------------------------------------------------------------- *)
InvalidBody == [method |-> "invalid", name |-> None]
ListToolsBody == [method |-> "tools/list", name |-> None]
CallToolBody(n) == [method |-> "tools/call", name |-> n]
Bodies == {InvalidBody, ListToolsBody} \cup {CallToolBody(n) : n \in RequestedNames}
Requests == Bodies \ {InvalidBody}

\* app.get("/sse"): construct, register, listen for close, connect
GetSse(sessionId) ==
  /\ pc = "sse"
  /\ Len(created) < MaxSessions
  /\ LET res == Len(created) + 1
         transport == [sessionId |-> sessionId, res |-> res]
         connects == ~(sdk = "guard" /\ serverTransport # {})
     IN /\ created' = Append(created, sessionId)
        /\ transports' = MapSet(transports, transport.sessionId, transport)
        /\ resOpen' = resOpen \cup {res}
        /\ started' = IF connects THEN started \cup {res} ELSE started
        /\ serverTransport' = IF connects THEN {res} ELSE serverTransport
        /\ stream' = IF connects
                       THEN [stream EXCEPT ![res] =
                               @ \cup {[kind |-> "endpoint", id |-> sessionId, origin |-> res]}]
                       ELSE stream
  /\ UNCHANGED <<loggerVars, startupVars, TOOL_DEFINITIONS, inflight, nextReq, observeVars>>

\* mutant: the close listener is attached only after connect has succeeded
ResClose_ListenerAfterConnect(res) ==
  /\ pc = "sse"
  /\ res \in resOpen
  /\ resOpen' = resOpen \ {res}
  /\ transports' = IF res \in started
                     THEN CloseListener(transports, created[res])
                     ELSE transports
  /\ started' = started \ {res}
  /\ serverTransport' = IF res \in started THEN {} ELSE serverTransport
  /\ UNCHANGED <<loggerVars, startupVars, TOOL_DEFINITIONS, created, stream, inflight, nextReq,
                 observeVars>>

\* res "close": the listener of app.get("/sse"), then the transport's own
ResClose(res) ==
  /\ pc = "sse"
  /\ res \in resOpen
  /\ resOpen' = resOpen \ {res}
  /\ transports' = CloseListener(transports, created[res])
  /\ started' = started \ {res}
  /\ serverTransport' = IF res \in started THEN {} ELSE serverTransport
  /\ UNCHANGED <<loggerVars, startupVars, TOOL_DEFINITIONS, created, stream, inflight, nextReq,
                 observeVars>>

\* mutant: the handler shifts the entries out of the catalog as it lists them
ListToolsRequest_Consuming(origin) ==
  /\ listResults' = listResults \cup {ListToolsHandler(TOOL_DEFINITIONS)}
  /\ stream' = Send(stream,
                    ResponseTarget(sdk, CapturedTransport(sdk, serverTransport),
                                   serverTransport),
                    [kind |-> "response", id |-> nextReq + 1, origin |-> origin],
                    started)
  /\ TOOL_DEFINITIONS' = IF TOOL_DEFINITIONS = << >> THEN << >> ELSE Tail(TOOL_DEFINITIONS)
  /\ UNCHANGED <<inflight, lastCall>>

\* a ListTools request reaches the Server from the transport `origin`: the
\* handler settles at once and the response is sent
ListToolsRequest(origin) ==
  /\ listResults' = listResults \cup {ListToolsHandler(TOOL_DEFINITIONS)}
  /\ stream' = Send(stream,
                    ResponseTarget(sdk, CapturedTransport(sdk, serverTransport),
                                   serverTransport),
                    [kind |-> "response", id |-> nextReq + 1, origin |-> origin],
                    started)
  /\ TOOL_DEFINITIONS' = TOOL_DEFINITIONS
  /\ UNCHANGED <<inflight, lastCall>>

\* a CallTool request reaches the Server from the transport `origin`: the
\* handler awaits harborService.handleToolRequest
CallToolRequest(origin, name) ==
  /\ inflight' = inflight \cup
       {[id |-> nextReq + 1, origin |-> origin,
         captured |-> CapturedTransport(sdk, serverTransport), name |-> name]}
  /\ TOOL_DEFINITIONS' = TOOL_DEFINITIONS
  /\ UNCHANGED <<stream, listResults, lastCall>>

Dispatch(origin, body) ==
  IF body.method = "tools/list"
    THEN ListToolsRequest(origin)
    ELSE CallToolRequest(origin, body.name)

\* app.post("/messages")
PostMessages(query, body) ==
  /\ pc = "sse"
  /\ nextReq < MaxRequests
  /\ nextReq' = nextReq + 1
  /\ LET found == LookupTransport(transports, query)
     IN IF found = {}
          THEN /\ lastPost' = <<RejectPost(query)>>
               /\ UNCHANGED <<TOOL_DEFINITIONS, stream, inflight, listResults, lastCall>>
          ELSE LET transport == CHOOSE t \in found : TRUE
                   answer == HandlePostMessage(query, transport,
                                                transport.res \in started,
                                                body # InvalidBody)
               IN /\ lastPost' = <<answer>>
                  /\ IF answer.dispatched
                       THEN Dispatch(transport.res, body)
                       ELSE UNCHANGED <<TOOL_DEFINITIONS, stream, inflight,
                                        listResults, lastCall>>
  /\ UNCHANGED <<loggerVars, startupVars, sessionVars, serverTransport>>

\* a request read from standard input
StdioRequest(body) ==
  /\ pc = "stdio"
  /\ nextReq < MaxRequests
  /\ nextReq' = nextReq + 1
  /\ Dispatch(Stdio, body)
  /\ UNCHANGED <<loggerVars, startupVars, sessionVars, serverTransport, lastPost>>

\* the registry call of an in-flight CallTool settles
CallToolComplete(req, outcome) ==
  /\ pc \in {"sse", "stdio"}
  /\ req \in inflight
  /\ outcome \in HandleToolRequest(req.name, TOOL_DEFINITIONS)
  /\ LET settled == CallToolHandler(outcome)
         target == ResponseTarget(sdk, req.captured, serverTransport)
     IN /\ lastCall' = <<[name |-> req.name, outcome |-> outcome,
                          response |-> ResponseOf(settled)]>>
        /\ stream' = Send(stream, target,
                          [kind |-> "response", id |-> req.id, origin |-> req.origin],
                          started)
  /\ inflight' = inflight \ {req}
  /\ UNCHANGED <<loggerVars, startupVars, TOOL_DEFINITIONS, sessionVars, serverTransport, nextReq,
                 lastPost, listResults>>

Serve ==
  \/ \E sessionId \in NewSessionIds(Issued) : GetSse(sessionId)
  \/ \E res \in ResIds : ResClose(res)
  \/ \E query \in QueryValues, body \in Bodies : PostMessages(query, body)
  \/ \E body \in Requests : StdioRequest(body)
  \/ \E req \in inflight :
       \E outcome \in HandleToolRequest(req.name, TOOL_DEFINITIONS) :
         CallToolComplete(req, outcome)

Next == Startup \/ Serve

Spec == Init /\ [][Next]_vars

(* ---------------------------------------------------------------------- *)
(* utils/logger.ts used on its own, as its unit test uses it              *)
(* ---------------------------------------------------------------------- *)
appVars == <<pc, argv, sdk, components, auth, TOOL_DEFINITIONS, transports, created,
             resOpen, started, serverTransport, stream, inflight, nextReq,
             lastPost, listResults, lastCall>>

\* new Logger(prefix, enabled)
NewLogger(prefix, enabled) ==
  /\ Len(loggers) < MaxLoggers
  /\ loggers' = Append(loggers, Logger(prefix, enabled))
  /\ UNCHANGED <<globalLogger, console, logCalls, lastLogCall, initReturns, got, appVars>>

\* logger.debug(...args)
LoggerDebug(ref, args) ==
  /\ logCalls < MaxLogCalls
  /\ logCalls' = logCalls + 1
  /\ lastLogCall' = <<[logger |-> ref, method |-> "debug", args |-> args]>>
  /\ console' = console \o DebugLines(loggers[ref], args)
  /\ UNCHANGED <<loggers, globalLogger, initReturns, got, appVars>>

\* logger.info(...args)
LoggerInfo(ref, args) ==
  /\ logCalls < MaxLogCalls
  /\ logCalls' = logCalls + 1
  /\ lastLogCall' = <<[logger |-> ref, method |-> "info", args |-> args]>>
  /\ console' = console \o InfoLines(loggers[ref], args)
  /\ UNCHANGED <<loggers, globalLogger, initReturns, got, appVars>>

\* logger.error(...args)
LoggerError(ref, args) ==
  /\ logCalls < MaxLogCalls
  /\ logCalls' = logCalls + 1
  /\ lastLogCall' = <<[logger |-> ref, method |-> "error", args |-> args]>>
  /\ console' = console \o ErrorLines(loggers[ref], args)
  /\ UNCHANGED <<loggers, globalLogger, initReturns, got, appVars>>

\* mutant: initLogger keeps a global logger that was already initialised
InitLogger_Once(debug) ==
  /\ Len(loggers) < MaxLoggers
  /\ loggers' = Append(loggers, Logger(DefaultPrefix, debug))
  /\ globalLogger' = IF initReturns = << >> THEN Len(loggers) + 1 ELSE globalLogger
  /\ initReturns' = Append(initReturns, [ref |-> Len(loggers) + 1, debug |-> debug])
  /\ UNCHANGED <<console, logCalls, lastLogCall, got, appVars>>

\* initLogger(debug): a new Logger becomes the global one and is returned
InitLogger(debug) ==
  /\ Len(loggers) < MaxLoggers
  /\ loggers' = Append(loggers, Logger(DefaultPrefix, debug))
  /\ globalLogger' = Len(loggers) + 1
  /\ initReturns' = Append(initReturns, [ref |-> globalLogger', debug |-> debug])
  /\ UNCHANGED <<console, logCalls, lastLogCall, got, appVars>>

\* getLogger(): returned after `after` calls of initLogger
GetLogger ==
  /\ got' = <<[ref |-> globalLogger, after |-> Len(initReturns)]>>
  /\ UNCHANGED <<loggers, globalLogger, console, logCalls, lastLogCall, initReturns,
                 appVars>>

LoggerNext ==
  \/ \E prefix \in Prefixes, enabled \in BOOLEAN : NewLogger(prefix, enabled)
  \/ \E ref \in 1..Len(loggers), args \in ArgLists : LoggerDebug(ref, args)
  \/ \E ref \in 1..Len(loggers), args \in ArgLists : LoggerInfo(ref, args)
  \/ \E ref \in 1..Len(loggers), args \in ArgLists : LoggerError(ref, args)
  \/ \E debug \in BOOLEAN : InitLogger(debug)
  \/ GetLogger

\* the module alone: the application has not started (the start state of the
\* run with no credentials and the defaults)
LoggerInit ==
  /\ Init
  /\ argv = [password |-> Undefined, token |-> Undefined, sse |-> FALSE]
  /\ sdk = "guard"

SpecLogger == LoggerInit /\ [][LoggerNext]_vars

(* ---------------------------------------------------------------------- *)
(* Properties                                                             *)
(* ---------------------------------------------------------------------- *)
\* a step that handles one POST /messages
PostStep == pc = "sse" /\ nextReq' = nextReq + 1

Closed == {r \in 1..Len(created) : r \notin resOpen}
Responses(t) == {m \in stream[t] : m.kind = "response"}
Rejected(answer) ==
  /\ answer.status = 400
  /\ answer.body = NotFoundBody
  /\ answer.handedTo = {}
  /\ ~answer.dispatched

\* C1: a POST /messages whose sessionId is missing, empty or no key of the
\* session map when it is handled is answered 400 with the body "No SSE
\* connection found for this session", is handed to no transport and reaches
\* no request handler.
C1_UnknownSessionRejected ==
  [][PostStep =>
       LET answer == lastPost'[1]
       IN (~Truthy(answer.query) \/ answer.query \notin DOMAIN transports) =>
            /\ Rejected(answer)
            /\ UNCHANGED <<stream, inflight, listResults, lastCall>>]_vars

\* a post to a session that had been opened and closed was rejected
C1_Witness ==
  /\ lastPost # << >>
  /\ Rejected(lastPost[1])
  /\ \E r \in Closed : created[r] = lastPost[1].query

\* C2: once the connection of a registered session has closed, its identifier
\* is in the session map in no later state, and a post bearing it is answered
\* 400 "not found".
C2_ClosedSessionStaysAbsent ==
  /\ [](\A r \in Closed : created[r] \notin DOMAIN transports)
  /\ [][PostStep =>
          LET answer == lastPost'[1]
          IN (\E r \in Closed : created[r] = answer.query) => Rejected(answer)]_vars

\* a session answered a post on its own stream, closed, and was then posted to
C2_Witness ==
  /\ lastPost # << >>
  /\ Rejected(lastPost[1])
  /\ \E r \in Closed :
       /\ created[r] = lastPost[1].query
       /\ \E m \in Responses(r) : m.origin = r

\* C3: every response to a message posted to a session is written to that
\* session's own event stream and to no other.
C3_ResponsesStayOnOwnStream ==
  \A t \in DOMAIN stream : \A m \in Responses(t) : m.origin = t

\* C4: sessions that are open at the same time have distinct identifiers, and
\* each is registered under its own: opening a session overwrites no entry of
\* a session that is still open.
C4_OpenSessionsDistinct ==
  /\ \A r1, r2 \in resOpen : r1 # r2 => created[r1] # created[r2]
  /\ \A r \in resOpen :
       /\ created[r] \in DOMAIN transports
       /\ transports[created[r]].res = r

\* two sessions are open at once
C4_Witness == Cardinality(resOpen) >= 2 /\ Cardinality(DOMAIN transports) >= 2

\* C5: every identifier in the session map is mapped to the transport of that
\* identifier, whose response stream is open, and no two identifiers share a
\* stream; also while a connect has failed.
C5_MapEntriesLive ==
  /\ \A id \in DOMAIN transports :
       /\ transports[id].sessionId = id
       /\ transports[id].res \in resOpen
  /\ \A id1, id2 \in DOMAIN transports :
       id1 # id2 => transports[id1].res # transports[id2].res

\* a session whose connect failed is registered, after a close and a post
C5_Witness ==
  /\ \E id \in DOMAIN transports : transports[id].res \notin started
  /\ Closed # {}
  /\ lastPost # << >>

\* C6: when the registry operation of a CallTool throws, a protocol error
\* reaches the caller with its code unchanged, any other Error reaches the
\* caller as InternalError with a message containing the original one, and in
\* neither case does the caller get a result.
C6_ErrorsTranslated ==
  lastCall # << >> /\ lastCall[1].outcome.kind = "throw" =>
    LET thrown == lastCall[1].outcome.error
        response == lastCall[1].response
    IN /\ response.type = "error"
       /\ thrown.isMcpError =>
            response.code = thrown.code /\ response.message = thrown.message
       /\ thrown.isError /\ ~thrown.isMcpError =>
            response.code = "InternalError" /\ Contains(response.message, thrown.message)

\* an Error("boom") was translated
C6_Witness ==
  /\ lastCall # << >>
  /\ lastCall[1].outcome = Throws(PlainError(<<"boom">>))
  /\ lastCall[1].response.type = "error"

\* C7: a CallTool naming no tool of the catalog is answered with a
\* MethodNotFound error, never a result, never InternalError.
C7_UnknownToolNotFound ==
  lastCall # << >> /\ lastCall[1].name \notin CatalogKeys(TOOL_DEFINITIONS) =>
    /\ lastCall[1].response.type = "error"
    /\ lastCall[1].response.code = "MethodNotFound"

\* a call of an unknown tool has been answered
C7_Witness ==
  /\ lastCall # << >>
  /\ lastCall[1].name = UnknownTool
  /\ lastCall[1].response.type = "error"

\* C8: ListTools returns exactly one entry per catalog key, with the
\* catalog's description and input schema, and no other entry.
C8_ListToolsMatchesCatalog ==
  \A result \in listResults :
    /\ {result[i].name : i \in 1..Len(result)} = CatalogKeys(TOOL_DEFINITIONS)
    /\ Len(result) = Cardinality(CatalogKeys(TOOL_DEFINITIONS))
    /\ \A k \in 1..Len(TOOL_DEFINITIONS) :
         \E i \in 1..Len(result) :
           /\ result[i].name = TOOL_DEFINITIONS[k][1]
           /\ result[i].description = TOOL_DEFINITIONS[k][2].description
           /\ result[i].inputSchema = TOOL_DEFINITIONS[k][2].inputSchema
           /\ \A j \in 1..Len(result) : result[j].name = result[i].name => j = i

\* a ListTools has been answered
C8_Witness == listResults # {} /\ \E t \in DOMAIN stream : Responses(t) # {}

\* C9: no step changes the catalog, and all ListTools calls of a run return
\* the same result.
C9_CatalogReadOnly ==
  /\ [][TOOL_DEFINITIONS' = TOOL_DEFINITIONS]_vars
  /\ [](Cardinality(listResults) <= 1)

\* two ListTools were answered over SSE, a session having been opened between them
C9_Witness ==
  /\ pc = "sse"
  /\ listResults # {}
  /\ Len(created) >= 2
  /\ \E t1, t2 \in DOMAIN stream :
       \E m1 \in Responses(t1), m2 \in Responses(t2) : m1.id # m2.id
  /\ inflight = {} /\ lastCall = << >>

\* C10: start-up with both a password and a token, or with neither, aborts
\* before anything is constructed; it gets past the configuration only with
\* exactly one of them (an empty string counts as not supplied).
C10_CredentialCheck ==
  LET both == Truthy(argv.password) /\ Truthy(argv.token)
      neither == ~Truthy(argv.password) /\ ~Truthy(argv.token)
  IN /\ both \/ neither =>
          /\ pc \in {"parse", "aborted"}
          /\ components = {}
          /\ serverTransport = {}
          /\ DOMAIN transports = {}
     /\ pc \notin {"parse", "aborted"} => ~both /\ ~neither
     /\ pc = "aborted" => both \/ neither

\* a start with both credentials has aborted
C10_Witness == pc = "aborted" /\ Truthy(argv.password) /\ Truthy(argv.token)

\* C11: a POST /messages bearing an identifier that is a key of the session
\* map when it is handled is not answered with the 400 "not found" response;
\* it is handed to the transport registered under that identifier and to no
\* other.
C11_KnownSessionDelivered ==
  [][PostStep =>
       LET answer == lastPost'[1]
       IN (Truthy(answer.query) /\ answer.query \in DOMAIN transports) =>
            /\ answer.body # NotFoundBody
            /\ answer.handedTo = {transports[answer.query].res}
            /\ created[transports[answer.query].res] = answer.query]_vars

\* with two sessions registered, a post to the younger one was accepted
C11_Witness ==
  /\ lastPost # << >>
  /\ lastPost[1].status = 202
  /\ Cardinality(DOMAIN transports) >= 2
  /\ lastPost[1].query \in DOMAIN transports
  /\ lastPost[1].handedTo = {transports[lastPost[1].query].res}
  /\ \E id \in DOMAIN transports : id[2] < lastPost[1].query[2]

\* C12: one transport binding per process: without --sse the server is
\* connected to the stdio transport, no HTTP application or listener exists
\* and no session is ever registered; with --sse the listener is opened and
\* the stdio transport is never constructed or connected.
C12_OneBinding ==
  /\ ~argv.sse =>
       /\ components \cap {"app", "listener"} = {}
       /\ created = << >> /\ DOMAIN transports = {} /\ resOpen = {}
       /\ serverTransport \subseteq {Stdio}
       /\ pc # "sse"
       /\ pc = "stdio" => "stdioTransport" \in components /\ serverTransport = {Stdio}
  /\ argv.sse =>
       /\ "stdioTransport" \notin components
       /\ Stdio \notin serverTransport
       /\ stream[Stdio] = {}
       /\ pc # "stdio"
       /\ pc = "sse" => "listener" \in components

\* the stdio binding has served a request
C12_Witness ==
  /\ pc = "stdio"
  /\ ~argv.sse
  /\ Responses(Stdio) # {}

\* C15: the close of a registered session's connection removes that session's
\* entry in the very step of the close, whether its connect succeeded or
\* threw; a closed connection never closes again and its entry is never back.
C15_CloseDeregistersOnce ==
  [][\A r \in 1..Len(created) :
       /\ (r \in resOpen /\ r \notin resOpen') =>
            /\ created[r] \in DOMAIN transports
            /\ created[r] \notin DOMAIN transports'
       /\ r \notin resOpen =>
            /\ r \notin resOpen'
            /\ created[r] \notin DOMAIN transports']_vars

\* a session whose connect threw (nothing was ever written to its stream) has
\* closed, and so has one whose connect succeeded
C15_Witness ==
  /\ \E r \in Closed : stream[r] = {}
  /\ \E r \in Closed : stream[r] # {}
  /\ DOMAIN transports = {}

\* C16: whatever the order of the open, close and post handlers, a post is
\* either handed to the transport of the session it names while that
\* session's stream is open, or answered 400 "not found"; a post for a session
\* that has been cleaned up is handed to no transport, and the server goes on
\* serving.
C16_PostRace ==
  [][PostStep =>
       LET answer == lastPost'[1]
       IN /\ \/ Rejected(answer)
             \/ \E r \in resOpen : created[r] = answer.query /\ answer.handedTo = {r}
          /\ (\E r \in Closed : created[r] = answer.query) =>
               answer.handedTo = {} /\ ~answer.dispatched
          /\ pc' = "sse"]_vars

\* a post for a cleaned-up session was rejected while another session is open
C16_Witness ==
  /\ lastPost # << >>
  /\ Rejected(lastPost[1])
  /\ \E r \in Closed : created[r] = lastPost[1].query
  /\ resOpen # {}
  /\ pc = "sse"

\* C17: when a tool call settles after the session it came from has
\* disconnected, its result or error is written to no event stream.
C17_OrphanResultDiscarded ==
  [][\A req \in inflight :
       (req \notin inflight' /\ req.origin # Stdio /\ req.origin \notin resOpen) =>
          stream' = stream]_vars

\* C18: the session map changes only by GET /sse adding the one entry of the
\* new session, and by a close removing the closing session's own entry; every
\* other entry, and every other step, leaves it as it was.
C18_MapFrame ==
  [][\/ transports' = transports
     \/ /\ Len(created') = Len(created) + 1
        /\ LET id == created'[Len(created')]
           IN /\ id \notin DOMAIN transports
              /\ DOMAIN transports' = DOMAIN transports \cup {id}
              /\ transports'[id] = [sessionId |-> id, res |-> Len(created')]
              /\ \A k \in DOMAIN transports : transports'[k] = transports[k]
     \/ \E r \in resOpen :
          /\ r \notin resOpen'
          /\ created' = created
          /\ DOMAIN transports' = DOMAIN transports \ {created[r]}
          /\ \A k \in DOMAIN transports' : transports'[k] = transports[k]]_vars

\* one of two sessions has closed, the other is still registered, and posts
\* and a tool call have been handled
C18_Witness ==
  /\ Closed # {}
  /\ Cardinality(DOMAIN transports) = 1
  /\ Len(created) = 2
  /\ lastPost # << >>
  /\ lastCall # << >>

\* a step that makes one call of debug, info or error
LogStep == logCalls' = logCalls + 1

\* C13: debug() makes one console.error call, of the prefix followed by
\* " [DEBUG]" and then the arguments in order, when the logger was constructed
\* enabled, and none otherwise; info() and error() always make one, tagged
\* " [INFO]" and " [ERROR]".
C13_LoggerOutput ==
  [][LogStep =>
       LET call == lastLogCall'[1]
           logger == loggers[call.logger]
           Line(tag) == <<logger.prefix \o tag>> \o call.args
       IN /\ call.method = "debug" /\ logger.enabled =>
               console' = Append(console, Line(" [DEBUG]"))
          /\ call.method = "debug" /\ ~logger.enabled => console' = console
          /\ call.method = "info" => console' = Append(console, Line(" [INFO]"))
          /\ call.method = "error" => console' = Append(console, Line(" [ERROR]"))]_vars

\* a disabled logger's debug() has just been called, an enabled "[Test]"
\* logger's debug() with two arguments having made its call before
C13_Witness ==
  /\ lastLogCall # << >>
  /\ lastLogCall[1].method = "debug"
  /\ ~loggers[lastLogCall[1].logger].enabled
  /\ console = << <<"[Test] [DEBUG]", "msg", "object">> >>
  /\ logCalls = 2

\* C14: getLogger returns the instance the most recent initLogger call
\* returned, which carries that call's debug flag and is none of the instances
\* returned earlier or constructed otherwise; every initLogger call returns a
\* new instance.
C14_GlobalLoggerIsLatest ==
  /\ \A i, j \in 1..Len(initReturns) :
       i # j => initReturns[i].ref # initReturns[j].ref
  /\ \A i \in 1..Len(initReturns) :
       /\ initReturns[i].ref \in 2..Len(loggers)
       /\ loggers[initReturns[i].ref] = Logger(DefaultPrefix, initReturns[i].debug)
  /\ got # << >> /\ got[1].after > 0 =>
       /\ got[1].ref = initReturns[got[1].after].ref
       /\ \A i \in 1..(got[1].after - 1) : got[1].ref # initReturns[i].ref
  /\ got # << >> /\ got[1].after = 0 => got[1].ref = 1

\* getLogger was called after a second initLogger, given the other debug flag
C14_Witness ==
  /\ got # << >>
  /\ got[1].after = 2
  /\ initReturns[1].debug # initReturns[2].debug
  /\ got[1].ref = initReturns[2].ref
====
